---- MODULE Spec2Model ----
(***************************************************************************)
(* regen: random strings from regexp/syntax op trees (src/regen.go).       *)
(*                                                                         *)
(* GenString is a recursive tree walk.  The model runs it as a stack       *)
(* machine: one frame per active GenString call, one action per case of    *)
(* the switch (the call's entry) and, for the cases that recurse, one      *)
(* action for the point where a child call returns into the loop.  main's  *)
(* two generation loops (zipped and pattern by pattern) drive it.          *)
(*                                                                         *)
(* Runes are code points: 'a' = 97, 'b' = 98, 'c' = 99, 'x' = 120,         *)
(* ' ' = 32, '\n' = 10.  rand.Reader is taken to deliver (rand.Int never   *)
(* returns an error), so randint either returns or panics on max < 0.      *)
(***************************************************************************)
EXTENDS Integers, Sequences, FiniteSets

\* ---------------------------------------------------------------- bounds
MaxPatterns == 2
MaxN == 2
MaxUnbound == 2
MaxRune == 4

\* ------------------------------------------------------ syntax.Regexp trees
Node(op, rune, min, max, sub) ==
  [Op |-> op, Rune |-> rune, Min |-> min, Max |-> max, Sub |-> sub]

Leaf(op) == Node(op, <<>>, 0, 0, <<>>)

Literal(rune) == Node("OpLiteral", rune, 0, 0, <<>>)

CharClass(rune) == Node("OpCharClass", rune, 0, 0, <<>>)

Unary(op, sub) == Node(op, <<>>, 0, 0, <<sub>>)

Repeat(min, max, sub) == Node("OpRepeat", <<>>, min, max, <<sub>>)

Nary(op, subs) == Node(op, <<>>, 0, 0, subs)

\* The range list regexp/syntax builds for a set of runes: sorted, disjoint,
\* adjacent ranges merged, (lo, hi) pairs flattened into one sequence.
RECURSIVE RangesOf(_, _)
RangesOf(S, r) ==
  IF r > 97 + MaxRune THEN <<>>
  ELSE IF r \notin S THEN RangesOf(S, r + 1)
  ELSE LET hi == CHOOSE h \in r..(97 + MaxRune) :
                   /\ \A q \in r..h : q \in S
                   /\ (h + 1) \notin S
       IN <<r, hi>> \o RangesOf(S, hi + 1)

\* A class of exactly one rune is turned into a literal by the parser, so it
\* never reaches GenString as OpCharClass; the empty class ([^\x00-\x{10FFFF}])
\* does.
Classes ==
  {RangesOf(S, 97) : S \in {T \in SUBSET (97..(97 + MaxRune)) : Cardinality(T) # 1}}

\* ab$c
AbDollarC ==
  Nary("OpConcat", <<Literal(<<97, 98>>), Leaf("OpEndText"), Literal(<<99>>)>>)

\* (?:a$)*
StarStop == Unary("OpStar", Nary("OpConcat", <<Literal(<<97>>), Leaf("OpEndText")>>))

\* (?:x\b)+
PlusBoundary ==
  Unary("OpPlus", Nary("OpConcat", <<Literal(<<120>>), Leaf("OpWordBoundary")>>))

\* (x$)?b
QuestStop ==
  Nary("OpConcat",
       <<Unary("OpQuest",
               Unary("OpCapture",
                     Nary("OpConcat", <<Literal(<<120>>), Leaf("OpEndText")>>))),
         Literal(<<98>>)>>)

\* (?:x$){1,2}
RepeatStop ==
  Repeat(1, 2, Nary("OpConcat", <<Literal(<<120>>), Leaf("OpEndText")>>))

\* (?m)^x$^
Lines ==
  Nary("OpConcat",
       <<Leaf("OpBeginLine"), Literal(<<120>>), Leaf("OpEndLine"), Leaf("OpBeginLine")>>)

\* .|^|(?s:.)|()|\B
Alt ==
  Nary("OpAlternate",
       <<Leaf("OpAnyCharNotNL"), Leaf("OpBeginText"), Leaf("OpAnyChar"),
         Unary("OpCapture", Leaf("OpEmptyMatch")), Leaf("OpNoWordBoundary")>>)

\* Patterns that are generated alone.
SinglePatterns ==
  {AbDollarC, StarStop, PlusBoundary, QuestStop, RepeatStop, Lines, Alt,
   Leaf("OpNoMatch"),
   Unary("OpStar", Literal(<<120>>)),
   Unary("OpPlus", Literal(<<120>>)),
   Repeat(2, 4, Literal(<<120>>)),
   Repeat(1, -1, Literal(<<120>>))}
  \cup {CharClass(c) : c \in Classes}

\* Patterns that are also generated in lists of several patterns:
\* ab$c, (?m)^x$^, x?, (?m)$
ListPatterns ==
  {AbDollarC, Lines, Unary("OpQuest", Literal(<<120>>)), Leaf("OpEndLine")}

RECURSIVE SeqsOf(_, _)
SeqsOf(S, len) ==
  IF len = 0 THEN {<<>>}
  ELSE {<<p>> \o s : p \in S, s \in SeqsOf(S, len - 1)}

Regexen ==
  {<<p>> : p \in SinglePatterns}
  \cup UNION {SeqsOf(ListPatterns, len) : len \in 1..MaxPatterns}

\* ------------------------------------------------------------------ state
VARIABLES
  regexen,     \* main: the parsed patterns
  n,           \* main: -n
  zip,         \* main: -zip
  unboundMax,  \* -max
  b,           \* main: the bytes.Buffer, as the runes written to it
  first,       \* main: first
  i,           \* main: the counter of the loop over n
  ri,          \* main: the position of the range over regexen (from 1)
  pc,          \* main: "loop", "gen" (inside GenString), "done", "exit", "panic"
  stack,       \* the active GenString calls, innermost first
  ret,         \* the error the last finished GenString call returned
  printed,     \* the argument of the last fmt.Print call
  panicMsg,    \* the value the process panicked with
  runs         \* the number of top-level GenString calls begun so far

vars ==
  <<regexen, n, zip, unboundMax, b, first, i, ri, pc, stack, ret, printed,
    panicMsg, runs>>

mainVars == <<regexen, n, zip, unboundMax, first, i, ri, printed, runs>>

\* A GenString call: its node, the child it is waiting for (0: the call has
\* just been entered), the loop counter sz, and the passes over Sub completed.
Frame(rx) == [rx |-> rx, at |-> 0, sz |-> 0, k |-> 0]

Top == Head(stack)

Init ==
  /\ regexen \in Regexen
  /\ n \in 0..MaxN
  /\ zip \in BOOLEAN
  /\ unboundMax \in 1..MaxUnbound
  /\ b = <<>>
  /\ first = TRUE
  /\ i = 0
  /\ ri = 1
  /\ pc = "loop"
  /\ stack = <<>>
  /\ ret = "none"
  /\ printed = <<>>
  /\ panicMsg = "none"
  /\ runs = 0

\* ------------------------------------------------------------------- main
\* BeginRun without the b.Reset().
BeginRunKeepsBuffer ==
  /\ printed' = IF first THEN printed ELSE <<10>>
  /\ b' = b
  /\ first' = FALSE
  /\ stack' = <<[rx |-> regexen[ri], at |-> 0, sz |-> 0, k |-> 0]>>
  /\ ret' = "none"
  /\ pc' = "gen"
  /\ runs' = runs + 1
  /\ UNCHANGED <<regexen, n, zip, unboundMax, i, ri, panicMsg>>

\* if !first { fmt.Print("\n"); b.Reset() }; first = false; GenString(&b, rx)
BeginRun ==
  /\ printed' = IF first THEN printed ELSE <<10>>
  /\ b' = IF first THEN b ELSE <<>>
  /\ first' = FALSE
  /\ stack' = <<Frame(regexen[ri])>>
  /\ ret' = "none"
  /\ pc' = "gen"
  /\ runs' = runs + 1
  /\ UNCHANGED <<regexen, n, zip, unboundMax, i, ri, panicMsg>>

ZipBegin ==
  /\ pc = "loop"
  /\ zip
  /\ i < n
  /\ ri <= Len(regexen)
  /\ BeginRun

SeqBegin ==
  /\ pc = "loop"
  /\ ~zip
  /\ ri <= Len(regexen)
  /\ i < n
  /\ BeginRun

\* err != nil && err != io.EOF: log and os.Exit(1); else fmt.Print(b.String())
ZipEnd ==
  /\ pc = "gen"
  /\ zip
  /\ stack = <<>>
  /\ ret # "none"
  /\ IF ret \notin {"nil", "EOF"}
     THEN /\ pc' = "exit"
          /\ UNCHANGED <<printed, i, ri>>
     ELSE /\ printed' = b
          /\ pc' = "loop"
          /\ IF ri < Len(regexen)
             THEN /\ ri' = ri + 1
                  /\ i' = i
             ELSE /\ ri' = 1
                  /\ i' = i + 1
  /\ ret' = "none"
  /\ UNCHANGED <<regexen, n, zip, unboundMax, b, first, stack, panicMsg, runs>>

\* SeqEnd with the test err != nil alone: io.EOF exits like any error.
SeqEndExitsOnStop ==
  /\ pc = "gen"
  /\ ~zip
  /\ stack = <<>>
  /\ ret # "none"
  /\ IF ret # "nil"
     THEN /\ pc' = "exit"
          /\ UNCHANGED <<printed, i, ri>>
     ELSE /\ printed' = b
          /\ pc' = "loop"
          /\ IF i + 1 < n
             THEN /\ i' = i + 1
                  /\ ri' = ri
             ELSE /\ i' = 0
                  /\ ri' = ri + 1
  /\ ret' = "none"
  /\ UNCHANGED <<regexen, n, zip, unboundMax, b, first, stack, panicMsg, runs>>

SeqEnd ==
  /\ pc = "gen"
  /\ ~zip
  /\ stack = <<>>
  /\ ret # "none"
  /\ IF ret \notin {"nil", "EOF"}
     THEN /\ pc' = "exit"
          /\ UNCHANGED <<printed, i, ri>>
     ELSE /\ printed' = b
          /\ pc' = "loop"
          /\ IF i + 1 < n
             THEN /\ i' = i + 1
                  /\ ri' = ri
             ELSE /\ i' = 0
                  /\ ri' = ri + 1
  /\ ret' = "none"
  /\ UNCHANGED <<regexen, n, zip, unboundMax, b, first, stack, panicMsg, runs>>

\* The loops are over; if isTTY() { fmt.Print("\n") }
MainDone ==
  /\ pc = "loop"
  /\ IF zip THEN i >= n ELSE (ri > Len(regexen) \/ n = 0)
  /\ pc' = "done"
  /\ \E isTTY \in BOOLEAN : printed' = IF isTTY THEN <<10>> ELSE printed
  /\ UNCHANGED <<regexen, n, zip, unboundMax, b, first, i, ri, stack, ret,
                 panicMsg, runs>>

\* -------------------------------------------------------------- GenString
\* The call on top of the stack has just been entered and its node is op.
Entered(ops) ==
  /\ pc = "gen"
  /\ stack # <<>>
  /\ ret = "none"
  /\ Top.at = 0
  /\ Top.rx.Op \in ops

\* A child call has returned into the call on top of the stack.
Resumed(ops) ==
  /\ pc = "gen"
  /\ stack # <<>>
  /\ ret # "none"
  /\ Top.at > 0
  /\ Top.rx.Op \in ops

\* return err
Return(err) ==
  /\ stack' = Tail(stack)
  /\ ret' = err
  /\ pc' = pc
  /\ panicMsg' = panicMsg

\* GenString(w, child), the caller's frame being fr meanwhile
Call(fr, child) ==
  /\ stack' = <<Frame(child), fr>> \o Tail(stack)
  /\ ret' = "none"
  /\ pc' = pc
  /\ panicMsg' = panicMsg

\* panic(msg)
Panic(msg) ==
  /\ pc' = "panic"
  /\ panicMsg' = msg
  /\ UNCHANGED <<stack, ret>>

GenNoMatch ==
  /\ Entered({"OpNoMatch"})
  /\ Return("nil")
  /\ UNCHANGED <<b, mainVars>>

GenEmptyMatch ==
  /\ Entered({"OpEmptyMatch"})
  /\ Return("nil")
  /\ UNCHANGED <<b, mainVars>>

GenLiteral ==
  /\ Entered({"OpLiteral"})
  /\ b' = b \o Top.rx.Rune
  /\ Return("nil")
  /\ UNCHANGED mainVars

\* randint(max): the values it can return; 0 without a draw when max <= 1.
randint(max) == IF max <= 1 THEN {0} ELSE 0..(max - 1)

\* sum := 0; for i := 0; i < len(rx.Rune); i += 2 { sum += 1 + int(hi - lo) }
RECURSIVE ClassSum(_, _)
ClassSum(rune, j) ==
  IF j > Len(rune) THEN 0
  ELSE 1 + (rune[j + 1] - rune[j]) + ClassSum(rune, j + 2)

\* ClassScan with the test nth < delta.
RECURSIVE ClassScanStrict(_, _, _)
ClassScanStrict(rune, j, nth) ==
  IF j > Len(rune) THEN -1
  ELSE LET min == rune[j]
           max == rune[j + 1]
           delta == max - min
       IN IF nth < delta THEN min + nth
          ELSE ClassScanStrict(rune, j + 2, nth - (1 + delta))

\* The scan over the (lo, hi) pairs from position j on with nth ordinals left:
\* the rune written, or -1 when the loop runs out of pairs.
RECURSIVE ClassScan(_, _, _)
ClassScan(rune, j, nth) ==
  IF j > Len(rune) THEN -1
  ELSE LET min == rune[j]
           max == rune[j + 1]
           delta == max - min
       IN IF nth <= delta THEN min + nth
          ELSE ClassScan(rune, j + 2, nth - (1 + delta))

GenCharClass ==
  /\ Entered({"OpCharClass"})
  /\ LET sum == ClassSum(Top.rx.Rune, 1)
     IN \E nth \in randint(sum) :
          LET r == ClassScan(Top.rx.Rune, 1, nth)
          IN IF r = -1
             THEN /\ Panic("unreachable")
                  /\ b' = b
             ELSE /\ b' = Append(b, r)
                  /\ Return("nil")
  /\ UNCHANGED mainVars

AnyCharNotNLSlots == 95

AnyCharSlots == 96

\* w.WriteRune(rune(' ' + randint(95)))
GenAnyCharNotNL ==
  /\ Entered({"OpAnyCharNotNL"})
  /\ \E r \in randint(AnyCharNotNLSlots) : b' = Append(b, 32 + r)
  /\ Return("nil")
  /\ UNCHANGED mainVars

\* i := int(randint(96)); ch := rune(' ' + i); if i == 95 { ch = '\n' }
GenAnyChar ==
  /\ Entered({"OpAnyChar"})
  /\ \E r \in randint(AnyCharSlots) :
       b' = Append(b, IF r = 95 THEN 10 ELSE 32 + r)
  /\ Return("nil")
  /\ UNCHANGED mainVars

GenBeginLine ==
  /\ Entered({"OpBeginLine"})
  /\ b' = IF Len(b) # 0 THEN Append(b, 10) ELSE b
  /\ Return("nil")
  /\ UNCHANGED mainVars

\* GenEndLine without the else branch: nil on an empty buffer.
GenEndLineNeverStops ==
  /\ pc = "gen" /\ stack # <<>> /\ ret = "none" /\ Top.at = 0
  /\ Top.rx.Op = "OpEndLine"
  /\ b' = IF Len(b) # 0 THEN Append(b, 10) ELSE b
  /\ stack' = Tail(stack) /\ ret' = "nil" /\ pc' = pc /\ panicMsg' = panicMsg
  /\ UNCHANGED mainVars

GenEndLine ==
  /\ Entered({"OpEndLine"})
  /\ IF Len(b) # 0
     THEN /\ b' = Append(b, 10)
          /\ Return("nil")
     ELSE /\ b' = b
          /\ Return("EOF")
  /\ UNCHANGED mainVars

GenBeginText ==
  /\ Entered({"OpBeginText"})
  /\ Return("nil")
  /\ UNCHANGED <<b, mainVars>>

GenEndText ==
  /\ Entered({"OpEndText"})
  /\ Return("EOF")
  /\ UNCHANGED <<b, mainVars>>

\* GenWordBoundary returning an error instead of panicking.
GenWordBoundaryReturnsError ==
  /\ pc = "gen" /\ stack # <<>> /\ ret = "none" /\ Top.at = 0
  /\ Top.rx.Op \in {"OpWordBoundary", "OpNoWordBoundary"}
  /\ stack' = Tail(stack) /\ ret' = "EOF" /\ pc' = pc /\ panicMsg' = panicMsg
  /\ UNCHANGED <<b, mainVars>>

GenWordBoundary ==
  /\ Entered({"OpWordBoundary", "OpNoWordBoundary"})
  /\ Panic("regen: word boundaries not supported yet")
  /\ UNCHANGED <<b, mainVars>>

\* min and max of a repetition: min := 0, 1 for OpPlus, max := min + unboundMax;
\* min := rx.Min, max := rx.Max, or min + unboundMax if max == -1.
RepMin(rx) ==
  IF rx.Op = "OpRepeat" THEN rx.Min
  ELSE IF rx.Op = "OpPlus" THEN 1 ELSE 0

RepMax(rx) ==
  IF rx.Op = "OpRepeat" /\ rx.Max # -1 THEN rx.Max
  ELSE RepMin(rx) + unboundMax

\* RepCounts with randint(max - min): max itself is never drawn.
RepCountsExclusive(rx) == {RepMin(rx) + r : r \in randint(RepMax(rx) - RepMin(rx))}

\* sz := min + int(randint(int64(max)-int64(min)+1)): the values sz can take.
RepCounts(rx) == {RepMin(rx) + r : r \in randint(RepMax(rx) - RepMin(rx) + 1)}

\* for sz := ...; sz > 0; sz-- { for _, rx := range rx.Sub { GenString(w, rx) } }
\* entered with sz: the first child is called, or the loop is over at once.
EnterLoop(sz) ==
  IF sz > 0 /\ Len(Top.rx.Sub) > 0
  THEN Call([Top EXCEPT !.sz = sz, !.at = 1], Top.rx.Sub[1])
  ELSE Return("nil")

\* for _, rx := range rx.Sub: the next child is called, or the range is over.
NextChild ==
  IF Top.at < Len(Top.rx.Sub)
  THEN Call([Top EXCEPT !.at = Top.at + 1], Top.rx.Sub[Top.at + 1])
  ELSE Return("nil")

\* The same inside the sz loop: after the last child sz-- and, while sz > 0,
\* another pass over Sub.
NextInLoop ==
  IF Top.at < Len(Top.rx.Sub)
  THEN Call([Top EXCEPT !.at = Top.at + 1], Top.rx.Sub[Top.at + 1])
  ELSE IF Top.sz - 1 > 0
       THEN Call([Top EXCEPT !.sz = Top.sz - 1, !.k = Top.k + 1, !.at = 1],
                 Top.rx.Sub[1])
       ELSE Return("nil")

GenStarPlus ==
  /\ Entered({"OpStar", "OpPlus"})
  /\ IF RepMax(Top.rx) - RepMin(Top.rx) + 1 < 0
     THEN Panic("randint: max < 0")
     ELSE \E sz \in RepCounts(Top.rx) : EnterLoop(sz)
  /\ UNCHANGED <<b, mainVars>>

\* GenString(w, rx) inside OpStar, OpPlus: the child's error is dropped.
StarPlusResume ==
  /\ Resumed({"OpStar", "OpPlus"})
  /\ NextInLoop
  /\ UNCHANGED <<b, mainVars>>

\* 32-bit quantities of the OpQuest draw as <<high 16 bits, low 16 bits>>.
WLess(x, y) == x[1] < y[1] \/ (x[1] = y[1] /\ x[2] < y[2])

WInc(x) == IF x[2] = 2^16 - 1 THEN <<x[1] + 1, 0>> ELSE <<x[1], x[2] + 1>>

WDec(x) == IF x[2] = 0 THEN <<x[1] - 1, 2^16 - 1>> ELSE <<x[1], x[2] - 1>>

WSub(x, y) ==
  IF x[2] >= y[2] THEN <<x[1] - y[1], x[2] - y[2]>>
  ELSE <<x[1] - y[1] - 1, x[2] + 2^16 - y[2]>>

\* 0xFFFFFFFF
QuestMax == <<2^16 - 1, 2^16 - 1>>

\* 0x7FFFFFFF
QuestThreshold == <<2^15 - 1, 2^16 - 1>>

\* randint(0xFFFFFFFF) returns any of 0 .. 0xFFFFFFFE; the draws taken here
\* are the least and the greatest value and the two around the threshold.
QuestDraws == {<<0, 0>>, QuestThreshold, WInc(QuestThreshold), WDec(QuestMax)}

\* randint(0xFFFFFFFF) > 0x7FFFFFFF
QuestTaken(r) == WLess(QuestThreshold, r)

GenQuest ==
  /\ Entered({"OpQuest"})
  /\ \E r \in QuestDraws :
       IF QuestTaken(r) THEN NextChild ELSE Return("nil")
  /\ UNCHANGED <<b, mainVars>>

QuestResume ==
  /\ Resumed({"OpQuest"})
  /\ IF ret # "nil" THEN Return(ret) ELSE NextChild
  /\ UNCHANGED <<b, mainVars>>

GenRepeat ==
  /\ Entered({"OpRepeat"})
  /\ IF RepMax(Top.rx) - RepMin(Top.rx) + 1 < 0
     THEN Panic("randint: max < 0")
     ELSE \E sz \in RepCounts(Top.rx) : EnterLoop(sz)
  /\ UNCHANGED <<b, mainVars>>

RepeatResume ==
  /\ Resumed({"OpRepeat"})
  /\ IF ret # "nil" THEN Return(ret) ELSE NextInLoop
  /\ UNCHANGED <<b, mainVars>>

GenConcat ==
  /\ Entered({"OpConcat", "OpCapture"})
  /\ NextChild
  /\ UNCHANGED <<b, mainVars>>

\* ConcatResume with the child's error dropped, as in the OpStar loop.
ConcatResumeDropsError ==
  /\ pc = "gen" /\ stack # <<>> /\ ret # "none" /\ Top.at > 0
  /\ Top.rx.Op \in {"OpConcat", "OpCapture"}
  /\ NextChild
  /\ UNCHANGED <<b, mainVars>>

ConcatResume ==
  /\ Resumed({"OpConcat", "OpCapture"})
  /\ IF ret # "nil" THEN Return(ret) ELSE NextChild
  /\ UNCHANGED <<b, mainVars>>

\* nth := randint(int64(len(rx.Sub))); return GenString(w, rx.Sub[nth])
GenAlternate ==
  /\ Entered({"OpAlternate"})
  /\ IF Len(Top.rx.Sub) = 0
     THEN Panic("index out of range")
     ELSE \E nth \in randint(Len(Top.rx.Sub)) :
            Call([Top EXCEPT !.at = nth + 1], Top.rx.Sub[nth + 1])
  /\ UNCHANGED <<b, mainVars>>

AlternateResume ==
  /\ Resumed({"OpAlternate"})
  /\ Return(ret)
  /\ UNCHANGED <<b, mainVars>>

Next ==
  \/ ZipBegin
  \/ SeqBegin
  \/ ZipEnd
  \/ SeqEnd
  \/ MainDone
  \/ GenNoMatch
  \/ GenEmptyMatch
  \/ GenLiteral
  \/ GenCharClass
  \/ GenAnyCharNotNL
  \/ GenAnyChar
  \/ GenBeginLine
  \/ GenEndLine
  \/ GenBeginText
  \/ GenEndText
  \/ GenWordBoundary
  \/ GenStarPlus
  \/ StarPlusResume
  \/ GenQuest
  \/ QuestResume
  \/ GenRepeat
  \/ RepeatResume
  \/ GenConcat
  \/ ConcatResume
  \/ GenAlternate
  \/ AlternateResume

Spec == Init /\ [][Next]_vars
\* ================================================================ claims
RepOps == {"OpStar", "OpPlus", "OpRepeat"}

SeqOps == {"OpConcat", "OpCapture"}

Has(seq, r) == \E j \in 1..Len(seq) : seq[j] = r

\* C1: when a child of a zero-or-more or one-or-more node returns Stop, the
\* node returns Stop itself at once: no further child, no further iteration,
\* nothing more written.
C1_StarPlusPropagatesStop ==
  [][(Resumed({"OpStar", "OpPlus"}) /\ ret = "EOF")
       => (stack' = Tail(stack) /\ ret' = "EOF" /\ b' = b)]_vars

\* C2: a concatenation or capture group calls its children in declared order;
\* when a child returns Stop it calls no later sibling and returns Stop, so
\* a run of ab$c never writes or prints the trailing c.
C2_ConcatStopsAtFirstStop ==
  /\ [][(Entered(SeqOps) /\ Top.rx.Sub # <<>>)
          => (Len(stack') = Len(stack) + 1 /\ Head(stack').rx = Top.rx.Sub[1])]_vars
  /\ [][(Resumed(SeqOps) /\ ret = "nil" /\ Top.at < Len(Top.rx.Sub))
          => (/\ Len(stack') = Len(stack) + 1
              /\ Head(stack').rx = Top.rx.Sub[Top.at + 1]
              /\ stack'[2].at = Top.at + 1)]_vars
  /\ [][(Resumed(SeqOps) /\ ret = "EOF")
          => (stack' = Tail(stack) /\ ret' = "EOF" /\ b' = b)]_vars
  /\ []((\A j \in 1..Len(regexen) : regexen[j] = AbDollarC)
          => (~Has(b, 99) /\ ~Has(printed, 99)))

C2_Witness ==
  /\ pc = "gen"
  /\ regexen[ri] = AbDollarC
  /\ stack = <<>>
  /\ ret = "EOF"
  /\ b = <<97, 98>>

\* The interval of repeat counts the claim states.
ClaimMin(rx) ==
  CASE rx.Op = "OpStar" -> 0
    [] rx.Op = "OpPlus" -> 1
    [] rx.Op = "OpRepeat" -> rx.Min

ClaimMax(rx) ==
  CASE rx.Op = "OpStar" -> unboundMax
    [] rx.Op = "OpPlus" -> 1 + unboundMax
    [] rx.Op = "OpRepeat" -> IF rx.Max >= 0 THEN rx.Max ELSE rx.Min + unboundMax

\* C3: a repetition node runs its children k times with min <= k <= max for
\* the (min, max) of its kind; every k of the interval can be drawn, the
\* count drawn is the count of passes run, and no pass is run beyond it.
C3_RepetitionCount ==
  /\ [](Entered(RepOps)
          => RepCounts(Top.rx) = ClaimMin(Top.rx)..ClaimMax(Top.rx))
  /\ [][Entered(RepOps)
          => IF stack' = Tail(stack)
             THEN ret' = "nil" /\ ClaimMin(Top.rx) = 0
             ELSE /\ Len(stack') = Len(stack) + 1
                  /\ stack'[2].k = 0
                  /\ stack'[2].sz \in ClaimMin(Top.rx)..ClaimMax(Top.rx)]_vars
  /\ [][(Resumed(RepOps) /\ Len(stack') = Len(stack) + 1)
          => stack'[2].k + stack'[2].sz = Top.k + Top.sz]_vars
  /\ [][(Resumed(RepOps) /\ stack' = Tail(stack) /\ ret' = "nil")
          => (Top.sz = 1 /\ Top.k + 1 \in ClaimMin(Top.rx)..ClaimMax(Top.rx))]_vars

C3_Witness ==
  /\ regexen = <<Repeat(2, 4, Literal(<<120>>))>>
  /\ pc = "gen"
  /\ stack = <<>>
  /\ ret = "nil"
  /\ b = <<120, 120, 120, 120>>

\* The members of a class: the union of its inclusive ranges.
Members(rune) == UNION {rune[2 * j - 1]..rune[2 * j] : j \in 1..(Len(rune) \div 2)}

\* C4: for a non-empty class the scan maps the ordinals 0 .. total-1 one-to-one
\* and in order onto the members of the class, total being the number of
\* members, and the rune written is the image of the ordinal drawn.
C4_ClassScanIsBijection ==
  /\ []((Entered({"OpCharClass"}) /\ Top.rx.Rune # <<>>)
          => LET rune == Top.rx.Rune
                 total == Cardinality(Members(rune))
             IN /\ ClassSum(rune, 1) = total
                /\ randint(ClassSum(rune, 1)) = 0..(total - 1)
                /\ \A nth \in 0..(total - 1) : ClassScan(rune, 1, nth) \in Members(rune)
                /\ \A m \in Members(rune) :
                     Cardinality({nth \in 0..(total - 1) : ClassScan(rune, 1, nth) = m}) = 1
                /\ \A nth \in 0..(total - 2) :
                     ClassScan(rune, 1, nth) < ClassScan(rune, 1, nth + 1))
  /\ [][(Entered({"OpCharClass"}) /\ Top.rx.Rune # <<>>)
          => (/\ stack' = Tail(stack)
              /\ ret' = "nil"
              /\ \E m \in Members(Top.rx.Rune) : b' = Append(b, m))]_vars

C4_Witness ==
  /\ regexen = <<CharClass(<<97, 99, 101, 101>>)>>
  /\ pc = "gen"
  /\ stack = <<>>
  /\ ret = "nil"
  /\ b = <<101>>

\* The draws 0x80000000 .. 0xFFFFFFFE, for which the children are generated,
\* and the draws 0 .. 0x7FFFFFFF, for which they are not.
QuestTakenCount == WSub(WDec(QuestMax), QuestThreshold)

QuestSkippedCount == WInc(QuestThreshold)

\* C5: of the values the draw of a zero-or-one node can return, exactly half
\* lead to the children being generated and exactly half to nothing.
C5_QuestIsFairCoin ==
  Entered({"OpQuest"}) => QuestTakenCount = QuestSkippedCount

\* C6: a word-boundary node writes nothing and panics, at any depth, and after
\* the panic nothing more is generated, printed or completed.
C6_WordBoundaryIsFatal ==
  /\ [][Entered({"OpWordBoundary", "OpNoWordBoundary"})
          => (b' = b /\ pc' = "panic" /\ panicMsg' # "none")]_vars
  /\ [][pc = "panic" => vars' = vars]_vars

C6_Witness ==
  /\ pc = "panic"
  /\ panicMsg = "regen: word boundaries not supported yet"
  /\ Top.rx.Op = "OpWordBoundary"
  /\ \E j \in 1..Len(stack) : stack[j].rx.Op = "OpPlus"
  /\ b = <<120>>

C8_StopIsSuccessAtTopLevel ==
  /\ [][(pc = "gen" /\ stack = <<>> /\ ret = "EOF")
          => (pc' = "loop" /\ printed' = b /\ b' = b)]_vars
  /\ [](pc = "done" => runs = n * Len(regexen))

C8_Witness ==
  /\ pc = "done"
  /\ zip
  /\ regexen = <<AbDollarC, Leaf("OpEndLine")>>
  /\ n = 2
  /\ runs = 4
  /\ printed = <<>>

\* C9: every top-level call of the generator starts with an empty buffer.
C9_RunStartsWithEmptyBuffer ==
  (pc = "gen" /\ Len(stack) = 1 /\ Top.at = 0 /\ ret = "none") => b = <<>>

C9_Witness ==
  /\ pc = "gen"
  /\ Len(stack) = 1
  /\ Top.at = 0
  /\ ret = "none"
  /\ regexen = <<AbDollarC, Leaf("OpEndLine")>>
  /\ ri = 2
  /\ runs = 2
  /\ b = <<>>

\* C10: the panic("unreachable") after the character-class scan is never
\* reached.
C10_ScanNeverFallsThrough == panicMsg # "unreachable"
====
